---- MODULE Spec2Model ----
(***************************************************************************)
(* Model of FractalPattern.cpp: the escape-time function mandelbrot, the   *)
(* colour function getColor and the raster driver main.                    *)
(*                                                                         *)
(* Numbers.  The program computes in IEEE doubles.  The model computes the *)
(* same expressions exactly, over rationals whose numerators and           *)
(* denominators are unbounded naturals (sequences of base-10000 limbs,     *)
(* least significant first).  On the inputs enumerated here the exact      *)
(* value and the double value fall on the same side of every comparison    *)
(* (|z| < 2.0) and of every truncation the program makes.                  *)
(*                                                                         *)
(* Sizes.  main fixes width = height = 800 and maxIterations = 1000; the    *)
(* model runs the same code on every image size up to MaxWidth x MaxHeight *)
(* with the cap MaxIter.  getColor is also run with the program's cap.     *)
(***************************************************************************)
EXTENDS Integers, Sequences, FiniteSets

(***************************************************************************)
(* Bounds of the model.                                                    *)
(***************************************************************************)
\* Largest image width and height the raster driver is run with.
MaxWidth == 4
MaxHeight == 4
\* Iteration cap the raster driver is run with.
MaxIter == 4
\* Largest image width and height of the any-order raster loop.
ParWidth == 3
ParHeight == 2
\* mandelbrot is called on the points (a/4, b/4), -GridSpan <= a, b <= GridSpan.
GridSpan == 8
\* Largest iteration cap mandelbrot is called with.
MandelCap == 5
\* getColor is called with the caps 1..ColorCap and with the program's cap.
ColorCap == 8

(***************************************************************************)
(* Literals of main.                                                       *)
(***************************************************************************)
\* int maxIterations = 1000;
ProgramMaxIterations == 1000
\* double minReal = -2.0, maxReal = 1.0;   (numerator, denominator)
minReal == <<-2, 1>>
maxReal == <<1, 1>>
\* double minImag = -1.5, maxImag = 1.5;
minImag == <<-3, 2>>
maxImag == <<3, 2>>

(***************************************************************************)
(* Unbounded naturals: a sequence of limbs in 0..9999, least significant   *)
(* first, without leading zero limbs; <<>> is zero.                        *)
(***************************************************************************)
RECURSIVE MagNorm(_)
MagNorm(a) ==
    IF a = <<>> THEN <<>>
    ELSE IF a[Len(a)] = 0 THEN MagNorm(SubSeq(a, 1, Len(a) - 1))
    ELSE a

RECURSIVE MagFromNat(_)
MagFromNat(n) ==
    IF n = 0 THEN <<>> ELSE <<n % 10000>> \o MagFromNat(n \div 10000)

RECURSIVE MagToNat(_)
MagToNat(a) ==
    IF a = <<>> THEN 0 ELSE a[1] + 10000 * MagToNat(Tail(a))

MagHead(a) == IF a = <<>> THEN 0 ELSE a[1]
MagTail(a) == IF a = <<>> THEN <<>> ELSE Tail(a)

RECURSIVE MagAddC(_, _, _)
MagAddC(a, b, carry) ==
    IF a = <<>> /\ b = <<>>
    THEN (IF carry = 0 THEN <<>> ELSE <<carry>>)
    ELSE LET s == MagHead(a) + MagHead(b) + carry
         IN  <<s % 10000>> \o MagAddC(MagTail(a), MagTail(b), s \div 10000)

MagAdd(a, b) == MagAddC(a, b, 0)

\* a - b for a >= b, before the leading zeros are removed.
RECURSIVE MagSubB(_, _, _)
MagSubB(a, b, borrow) ==
    IF a = <<>> THEN <<>>
    ELSE LET s == a[1] - MagHead(b) - borrow
         IN  IF s < 0
             THEN <<s + 10000>> \o MagSubB(Tail(a), MagTail(b), 1)
             ELSE <<s>> \o MagSubB(Tail(a), MagTail(b), 0)

MagSub(a, b) == MagNorm(MagSubB(a, b, 0))

\* -1, 0, 1 as a < b, a = b, a > b, comparing the limbs from position i down.
RECURSIVE MagCmpAt(_, _, _)
MagCmpAt(a, b, i) ==
    IF i = 0 THEN 0
    ELSE IF a[i] < b[i] THEN -1
    ELSE IF a[i] > b[i] THEN 1
    ELSE MagCmpAt(a, b, i - 1)

MagCmp(a, b) ==
    IF Len(a) < Len(b) THEN -1
    ELSE IF Len(a) > Len(b) THEN 1
    ELSE MagCmpAt(a, b, Len(a))

\* a * k for a natural k < 10000.
RECURSIVE MagMulSmallC(_, _, _)
MagMulSmallC(a, k, carry) ==
    IF a = <<>> THEN MagFromNat(carry)
    ELSE LET s == a[1] * k + carry
         IN  <<s % 10000>> \o MagMulSmallC(Tail(a), k, s \div 10000)

MagMulSmall(a, k) == IF k = 0 THEN <<>> ELSE MagMulSmallC(a, k, 0)

MagShift(a) == IF a = <<>> THEN <<>> ELSE <<0>> \o a

RECURSIVE MagMul(_, _)
MagMul(a, b) ==
    IF b = <<>> THEN <<>>
    ELSE MagAdd(MagMulSmall(a, b[1]), MagShift(MagMul(a, Tail(b))))

\* floor(a / k) for 0 < k < 10000: long division from limb i down, the
\* quotient's limbs least significant first.
RECURSIVE MagDivSmallAt(_, _, _, _)
MagDivSmallAt(a, k, i, rem) ==
    IF i = 0 THEN <<>>
    ELSE LET cur == rem * 10000 + a[i]
         IN  MagDivSmallAt(a, k, i - 1, cur % k) \o <<cur \div k>>

MagDivSmall(a, k) == MagNorm(MagDivSmallAt(a, k, Len(a), 0))

(***************************************************************************)
(* Unbounded integers: <<sign, magnitude>>, sign 1 or -1, zero is <<1,<<>>>>*)
(***************************************************************************)
BigOf(n) == IF n < 0 THEN <<-1, MagFromNat(-n)>> ELSE <<1, MagFromNat(n)>>

BigMake(s, m) == IF m = <<>> THEN <<1, <<>>>> ELSE <<s, m>>

BigNeg(a) == BigMake(-a[1], a[2])

BigAdd(a, b) ==
    IF a[1] = b[1] THEN BigMake(a[1], MagAdd(a[2], b[2]))
    ELSE IF MagCmp(a[2], b[2]) >= 0 THEN BigMake(a[1], MagSub(a[2], b[2]))
    ELSE BigMake(b[1], MagSub(b[2], a[2]))

BigSub(a, b) == BigAdd(a, BigNeg(b))

BigMul(a, b) == BigMake(a[1] * b[1], MagMul(a[2], b[2]))

BigLess(a, b) ==
    IF a[1] # b[1] THEN a[1] < b[1]
    ELSE IF a[1] = 1 THEN MagCmp(a[2], b[2]) < 0
    ELSE MagCmp(a[2], b[2]) > 0

(***************************************************************************)
(* std::complex<double>: real and imaginary numerators over one common     *)
(* positive denominator, [re |-> integer, im |-> integer, den |-> natural].*)
(***************************************************************************)
\* std::complex<double> c(real, imag), real and imag given as <<num, den>>.
ComplexOf(real, imag) ==
    [re  |-> BigOf(real[1] * imag[2]),
     im  |-> BigOf(imag[1] * real[2]),
     den |-> MagFromNat(real[2] * imag[2])]

\* (a loop that starts at z = c)
InitialZAtC(c) == c
\* std::complex<double> z = 0, whatever c is.
InitialZ(c) == [re |-> BigOf(0), im |-> BigOf(0), den |-> MagFromNat(1)]

\* z * z + c: (re^2 - im^2) + (2 re im) i, plus c, over the denominator
\* z.den^2 * c.den.
SquarePlus(z, c) ==
    LET d2 == MagMul(z.den, z.den)
        cd == <<1, c.den>>
        D2 == <<1, d2>>
    IN  [re  |-> BigAdd(BigMul(BigSub(BigMul(z.re, z.re), BigMul(z.im, z.im)), cd),
                        BigMul(c.re, D2)),
         im  |-> BigAdd(BigMul(BigMul(BigOf(2), BigMul(z.re, z.im)), cd),
                        BigMul(c.im, D2)),
         den |-> MagMul(d2, c.den)]

\* re^2 + im^2 and 4 * den^2: |z| is the square root of their quotient.
NormSq(z) == BigAdd(BigMul(z.re, z.re), BigMul(z.im, z.im))
FourDenSq(z) == <<1, MagMulSmall(MagMul(z.den, z.den), 4)>>

\* (the test std::abs(z) <= 2.0)
AbsNotAbove2(z) == ~ BigLess(FourDenSq(z), NormSq(z))
\* std::abs(z) < 2.0
AbsBelow2(z) == BigLess(NormSq(z), FourDenSq(z))

\* (a loop that still runs at iters = maxIters)
LoopCondInclusive(z, iters, maxIters) ==
    AbsBelow2(z) /\ iters <= maxIters
\* The condition of the while loop of mandelbrot.
LoopCond(z, iters, maxIters) ==
    AbsBelow2(z) /\ iters < maxIters

\* The while loop of mandelbrot, run to its end from (z, iters).
RECURSIVE MandelLoop(_, _, _, _)
MandelLoop(c, z, iters, maxIters) ==
    IF LoopCond(z, iters, maxIters)
    THEN MandelLoop(c, SquarePlus(z, c), iters + 1, maxIters)
    ELSE iters

\* int mandelbrot(double real, double imag, int maxIterations)
mandelbrot(real, imag, maxIters) ==
    LET c == ComplexOf(real, imag)
    IN  MandelLoop(c, InitialZ(c), 0, maxIters)

(***************************************************************************)
(* getColor.                                                               *)
(***************************************************************************)
RECURSIVE MulAll(_, _)
MulAll(a, factors) ==
    IF factors = <<>> THEN a
    ELSE MulAll(MagMulSmall(a, Head(factors)), Tail(factors))

RECURSIVE DivAll(_, _)
DivAll(a, divisors) ==
    IF divisors = <<>> THEN a
    ELSE DivAll(MagDivSmall(a, Head(divisors)), Tail(divisors))

\* The integer part of (product of factors) / (product of divisors), all
\* naturals: floor(floor(n / a) / b) = floor(n / (a * b)).
Truncated(factors, divisors) ==
    MagToNat(DivAll(MulAll(MagFromNat(1), factors), divisors))

\* With t = iters / maxIters = i / m, the integer parts of
\*   9 * (1 - t) * t * t * t * 255 * 1.5
\*   15 * (1 - t) * (1 - t) * t * t * 255 * 1.5
\*   8.5 * (1 - t) * (1 - t) * (1 - t) * t * 255 * 1.5
\* where 1.5 = 3/2 and 8.5 = 17/2.
RedValue(i, m) == Truncated(<<9, m - i, i, i, i, 255, 3>>, <<m, m, m, m, 2>>)
GreenValue(i, m) == Truncated(<<15, m - i, m - i, i, i, 255, 3>>, <<m, m, m, m, 2>>)
BlueValue(i, m) == Truncated(<<17, m - i, m - i, m - i, i, 255, 3>>, <<m, m, m, m, 2, 2>>)

\* What a build makes of (unsigned char)v for a double v whose integer part
\* is above 255, which the language leaves undefined: the low byte of the
\* integer part, or the largest unsigned char.
CastModes == {"wrap", "saturate"}

\* (unsigned char)v, v given by its integer part.
UCharCast(v, mode) ==
    IF v <= 255 THEN v
    ELSE IF mode = "wrap" THEN v % 256
    ELSE 255

\* std::min(r, (unsigned char)255)
MinUChar(a, b) == IF b < a THEN b ELSE a

\* (r = g = b = 255)
White == <<255, 255, 255>>
\* r = g = b = 0
Black == <<0, 0, 0>>

\* Do the iters equal the cap (the test of the if in getColor)?
AtCap(iters, maxIters) == iters = maxIters

\* void getColor(int iterations, int maxIterations, uchar& r, uchar& g, uchar& b)
getColor(iters, maxIters, mode) ==
    IF AtCap(iters, maxIters)
    THEN Black
    ELSE <<MinUChar(UCharCast(RedValue(iters, maxIters), mode), 255),
           MinUChar(UCharCast(GreenValue(iters, maxIters), mode), 255),
           MinUChar(UCharCast(BlueValue(iters, maxIters), mode), 255)>>

(***************************************************************************)
(* main: the pixel grid.                                                   *)
(***************************************************************************)
RECURSIVE GCD(_, _)
GCD(a, b) == IF b = 0 THEN a ELSE GCD(b, a % b)

Abs(n) == IF n < 0 THEN -n ELSE n

\* Rationals <<numerator, denominator>> with a positive denominator, in
\* lowest terms.
RatNorm(a) ==
    LET g == GCD(Abs(a[1]), a[2])
    IN  <<a[1] \div g, a[2] \div g>>
RatAdd(a, b) == RatNorm(<<a[1] * b[2] + b[1] * a[2], a[2] * b[2]>>)
RatSub(a, b) == RatNorm(<<a[1] * b[2] - b[1] * a[2], a[2] * b[2]>>)
RatMul(a, b) == RatNorm(<<a[1] * b[1], a[2] * b[2]>>)

\* double real = minReal + (x / (double)width) * (maxReal - minReal);
PixelReal(px, w) == RatAdd(minReal, RatMul(<<px, w>>, RatSub(maxReal, minReal)))
\* double imag = minImag + (y / (double)height) * (maxImag - minImag);
PixelImag(py, h) == RatAdd(minImag, RatMul(<<py, h>>, RatSub(maxImag, minImag)))

\* int iterations = mandelbrot(real, imag, maxIterations);
PixelIterations(px, py, w, h, cap) ==
    mandelbrot(PixelReal(px, w), PixelImag(py, h), cap)

\* std::vector<unsigned char> image(width * height * 3);
BufferSize(w, h) == w * h * 3

\* (an index without the factor 3)
PixelIndexUnscaled(px, py, w, h) == py * w + px
\* (an index that strides by the height)
PixelIndexHeightStride(px, py, w, h) == (py * h + px) * 3
\* int index = (y * width + x) * 3;
PixelIndex(px, py, w, h) == (py * w + px) * 3

\* image[index] = r; image[index + 1] = g; image[index + 2] = b;
\* A write outside the buffer leaves the modelled buffer as it is; the log of
\* written indices records it.
WritePixel(img, index, rgb) ==
    [i \in DOMAIN img |->
        IF i = index THEN rgb[1]
        ELSE IF i = index + 1 THEN rgb[2]
        ELSE IF i = index + 2 THEN rgb[3]
        ELSE img[i]]

\* (an outer loop that stops one column early)
OuterCondShort(px, w) == px < w - 1
\* x < width
OuterCond(px, w) == px < w
\* y < height
InnerCond(py, h) == py < h

\* The lines main prints.
StartLine == <<"Generating Mandelbrot...">>
CompleteLine == <<"Mandelbrot generation complete.">>
SizeLine(n) == <<"Image buffer size: ", n>>
ErrorLine == <<"Failed to save the image!">>
SavedLine == <<"Image saved successfully!">>

\* (a report without the size line)
ReportNoSize(lines, img) == lines \o <<CompleteLine>>
\* std::cout << "Mandelbrot generation complete." << std::endl;
\* std::cout << "Image buffer size: " << image.size() << std::endl;
Report(lines, img) ==
    lines \o <<CompleteLine, SizeLine(Cardinality(DOMAIN img))>>

\* (a test without the negation)
SaveFailedInverted(result) == result # 0
\* !stbi_write_png(...): the encoder returns 0 when it fails.
SaveFailed(result) == result = 0

\* stbi_write_png("mandelbrot_fractal_pattern.png", width, height, 3,
\*                image.data(), width * 3), with what it returned.
EncoderCall(w, h, img, result) ==
    [filename |-> "mandelbrot_fractal_pattern.png", w |-> w, h |-> h,
     comp |-> 3, data |-> img, stride |-> w * 3, result |-> result]

\* The pixel loop of main as one fold in the program's order (column outer,
\* row inner), from the n-th pixel on.
RECURSIVE ColumnOuterFill(_, _, _, _, _, _)
ColumnOuterFill(img, n, w, h, cap, mode) ==
    IF n >= w * h THEN img
    ELSE LET px == n \div h
             py == n % h
         IN  ColumnOuterFill(
                 WritePixel(img, PixelIndex(px, py, w, h),
                            getColor(PixelIterations(px, py, w, h, cap), cap, mode)),
                 n + 1, w, h, cap, mode)

(***************************************************************************)
(* State.                                                                  *)
(***************************************************************************)
VARIABLES
    pc,             \* where the modelled code stands
    castMode,       \* what the build makes of an out-of-range cast
    width, height, maxIterations, x, y, iterations, image,   \* locals of main
    writeLog,       \* the buffer indices main wrote, in order
    out, err,       \* the lines on std::cout and on std::cerr
    encoderCalls,   \* the calls of stbi_write_png, with their results
    exitCode,       \* <<>> while main runs, then <<its return value>>
    todo,           \* any-order loop: the pixels not yet computed
    m_real, m_imag, m_max, m_z, m_iterations,   \* mandelbrot: arguments, locals
    g_iterations, g_max, g_rgb                  \* getColor: arguments, outputs

mainVars == <<width, height, maxIterations, x, y, iterations, image, writeLog,
              out, err, encoderCalls, exitCode>>
mandelVars == <<m_real, m_imag, m_max, m_z, m_iterations>>
colorVars == <<g_iterations, g_max, g_rgb>>
vars == <<pc, castMode, mainVars, todo, mandelVars, colorVars>>

MandelUnused ==
    /\ m_real = <<0, 1>> /\ m_imag = <<0, 1>> /\ m_max = 1
    /\ m_z = InitialZ(ComplexOf(<<0, 1>>, <<0, 1>>)) /\ m_iterations = 0
ColorUnused == g_iterations = 0 /\ g_max = 1 /\ g_rgb = <<>>

\* main up to the std::vector's construction: every byte is 0.
MainLocals(maxW, maxH) ==
    /\ width \in 1..maxW
    /\ height \in 1..maxH
    /\ maxIterations = MaxIter
    /\ x = 0 /\ y = 0 /\ iterations = 0
    /\ image = [i \in 0..(BufferSize(width, height) - 1) |-> 0]
    /\ writeLog = <<>>
    /\ out = <<>> /\ err = <<>>
    /\ encoderCalls = <<>>
    /\ exitCode = <<>>

(***************************************************************************)
(* main, run on every image size up to MaxWidth x MaxHeight with the       *)
(* iteration cap MaxIter.                                                  *)
(***************************************************************************)
Init ==
    /\ pc = "start"
    /\ castMode \in CastModes
    /\ MainLocals(MaxWidth, MaxHeight)
    /\ todo = {}
    /\ MandelUnused /\ ColorUnused

\* std::cout << "Generating Mandelbrot..." << std::endl;  for (int x = 0; ...
PrintStart ==
    /\ pc = "start"
    /\ out' = Append(out, StartLine)
    /\ x' = 0
    /\ pc' = "outer"
    /\ UNCHANGED <<castMode, width, height, maxIterations, y, iterations, image,
                   writeLog, err, encoderCalls, exitCode, todo, mandelVars,
                   colorVars>>

\* x < width holds: for (int y = 0; ...
OuterEnter ==
    /\ pc = "outer"
    /\ OuterCond(x, width)
    /\ y' = 0
    /\ pc' = "inner"
    /\ UNCHANGED <<castMode, width, height, maxIterations, x, iterations, image,
                   writeLog, out, err, encoderCalls, exitCode, todo, mandelVars,
                   colorVars>>

\* y < height holds: the body of the inner loop, then ++y.
PixelStep ==
    /\ pc = "inner"
    /\ InnerCond(y, height)
    /\ LET n == PixelIterations(x, y, width, height, maxIterations)
           rgb == getColor(n, maxIterations, castMode)
           index == PixelIndex(x, y, width, height)
       IN  /\ iterations' = n
           /\ image' = WritePixel(image, index, rgb)
           /\ writeLog' = writeLog \o <<index, index + 1, index + 2>>
    /\ y' = y + 1
    /\ UNCHANGED <<pc, castMode, width, height, maxIterations, x, out, err,
                   encoderCalls, exitCode, todo, mandelVars, colorVars>>

\* y < height fails: ++x.
InnerExit ==
    /\ pc = "inner"
    /\ ~ InnerCond(y, height)
    /\ x' = x + 1
    /\ pc' = "outer"
    /\ UNCHANGED <<castMode, width, height, maxIterations, y, iterations, image,
                   writeLog, out, err, encoderCalls, exitCode, todo, mandelVars,
                   colorVars>>

\* x < width fails: the two lines after the loop.
OuterExit ==
    /\ pc = "outer"
    /\ ~ OuterCond(x, width)
    /\ out' = Report(out, image)
    /\ pc' = "save"
    /\ UNCHANGED <<castMode, width, height, maxIterations, x, y, iterations,
                   image, writeLog, err, encoderCalls, exitCode, todo,
                   mandelVars, colorVars>>

\* The call of stbi_write_png, which returns 0 or 1.
Save ==
    /\ pc = "save"
    /\ \E result \in {0, 1} :
           encoderCalls' = Append(encoderCalls,
                                  EncoderCall(width, height, image, result))
    /\ pc' = "saved"
    /\ UNCHANGED <<castMode, width, height, maxIterations, x, y, iterations,
                   image, writeLog, out, err, exitCode, todo, mandelVars,
                   colorVars>>

\* The encoder failed: the error line, return 1.
FailExit ==
    /\ pc = "saved"
    /\ SaveFailed(encoderCalls[Len(encoderCalls)].result)
    /\ err' = Append(err, ErrorLine)
    /\ exitCode' = <<1>>
    /\ pc' = "done"
    /\ UNCHANGED <<castMode, width, height, maxIterations, x, y, iterations,
                   image, writeLog, out, encoderCalls, todo, mandelVars,
                   colorVars>>

\* The encoder succeeded: the success line, return 0.
SuccessExit ==
    /\ pc = "saved"
    /\ ~ SaveFailed(encoderCalls[Len(encoderCalls)].result)
    /\ out' = Append(out, SavedLine)
    /\ exitCode' = <<0>>
    /\ pc' = "done"
    /\ UNCHANGED <<castMode, width, height, maxIterations, x, y, iterations,
                   image, writeLog, err, encoderCalls, todo, mandelVars,
                   colorVars>>

Next ==
    \/ PrintStart
    \/ OuterEnter
    \/ PixelStep
    \/ InnerExit
    \/ OuterExit
    \/ Save
    \/ FailExit
    \/ SuccessExit

Spec == Init /\ [][Next]_vars

(***************************************************************************)
(* The pixel loop with the pixels taken in any order: each step computes   *)
(* one pixel that is still to do and writes it at its own index.  The      *)
(* program's column-outer order and a row-major order are two of its runs. *)
(***************************************************************************)
AllPixels(w, h) == (0..(w - 1)) \X (0..(h - 1))

InitAnyOrder ==
    /\ pc = "pixels"
    /\ castMode \in CastModes
    /\ MainLocals(ParWidth, ParHeight)
    /\ todo = AllPixels(width, height)
    /\ MandelUnused /\ ColorUnused

AnyPixel ==
    /\ pc = "pixels"
    /\ \E p \in todo :
          LET n == PixelIterations(p[1], p[2], width, height, maxIterations)
              rgb == getColor(n, maxIterations, castMode)
              index == PixelIndex(p[1], p[2], width, height)
          IN  /\ image' = WritePixel(image, index, rgb)
              /\ todo' = todo \ {p}
    /\ UNCHANGED <<pc, castMode, width, height, maxIterations, x, y, iterations,
                   writeLog, out, err, encoderCalls, exitCode, mandelVars,
                   colorVars>>

NextAnyOrder == AnyPixel

SpecAnyOrder == InitAnyOrder /\ [][NextAnyOrder]_vars

(***************************************************************************)
(* One call of mandelbrot, its loop taken one round at a time, on every    *)
(* point (a/4, b/4) of the grid and every cap 1..MandelCap.                *)
(***************************************************************************)
GridCoords == {<<a, 4>> : a \in (-GridSpan)..GridSpan}

MainUnused ==
    /\ width = 1 /\ height = 1 /\ maxIterations = 1
    /\ x = 0 /\ y = 0 /\ iterations = 0
    /\ image = [i \in 0..(BufferSize(1, 1) - 1) |-> 0]
    /\ writeLog = <<>> /\ out = <<>> /\ err = <<>>
    /\ encoderCalls = <<>> /\ exitCode = <<>>

\* The call's state on reaching the while: c built, z = 0, iterations = 0.
InitMandelbrot ==
    /\ pc = "while"
    /\ castMode = "wrap"
    /\ m_real \in GridCoords
    /\ m_imag \in GridCoords
    /\ m_max \in 1..MandelCap
    /\ m_z = InitialZ(ComplexOf(m_real, m_imag))
    /\ m_iterations = 0
    /\ MainUnused /\ todo = {} /\ ColorUnused

\* The loop condition holds: z = z * z + c; iterations++;
MandelRound ==
    /\ pc = "while"
    /\ LoopCond(m_z, m_iterations, m_max)
    /\ m_z' = SquarePlus(m_z, ComplexOf(m_real, m_imag))
    /\ m_iterations' = m_iterations + 1
    /\ UNCHANGED <<pc, castMode, mainVars, todo, m_real, m_imag, m_max, colorVars>>

\* The loop condition fails: return iterations;
MandelReturn ==
    /\ pc = "while"
    /\ ~ LoopCond(m_z, m_iterations, m_max)
    /\ pc' = "returned"
    /\ UNCHANGED <<castMode, mainVars, todo, mandelVars, colorVars>>

NextMandelbrot == MandelRound \/ MandelReturn

SpecMandelbrot == InitMandelbrot /\ [][NextMandelbrot]_vars

(***************************************************************************)
(* One call of getColor, on every cap 1..ColorCap and the program's cap    *)
(* and every iteration count 0..cap, in every build.                       *)
(***************************************************************************)
InitGetColor ==
    /\ pc = "call"
    /\ castMode \in CastModes
    /\ g_max \in (1..ColorCap) \cup {ProgramMaxIterations}
    /\ g_iterations \in 0..g_max
    /\ g_rgb = <<>>
    /\ MainUnused /\ todo = {} /\ MandelUnused

GetColorCall ==
    /\ pc = "call"
    /\ g_rgb' = getColor(g_iterations, g_max, castMode)
    /\ pc' = "colored"
    /\ UNCHANGED <<castMode, mainVars, todo, mandelVars, g_iterations, g_max>>

NextGetColor == GetColorCall

SpecGetColor == InitGetColor /\ [][NextGetColor]_vars

(***************************************************************************)
(* Properties.                                                             *)
(***************************************************************************)
Range(f) == {f[i] : i \in DOMAIN f}

\* clamp(v, 0, 255)
Clamp(v) == IF v < 0 THEN 0 ELSE IF v > 255 THEN 255 ELSE v

\* C1 (as claimed): with maxIterations = 1000 and iterations below it, each
\* channel getColor returns is the truncated formula value saturated at 255.
C1_ChannelsSaturate ==
    (pc = "colored" /\ g_max = ProgramMaxIterations /\ g_iterations < g_max)
    => g_rgb = <<Clamp(RedValue(g_iterations, g_max)),
                 Clamp(GreenValue(g_iterations, g_max)),
                 Clamp(BlueValue(g_iterations, g_max))>>

\* C2: the iteration counter of mandelbrot is in [0, maxIterations] at every
\* point of the loop and on return.
C2_CounterWithinCap == m_iterations \in 0..m_max

\* A call that returned with the counter at a cap above 1.
C2_Witness == pc = "returned" /\ m_max > 1 /\ m_iterations = m_max

\* C3: the buffer always has width*height*3 bytes, every write is inside it,
\* no byte is written twice, and after the loop every pixel (px, py) has its
\* r, g, b at (py*width+px)*3, +1, +2.
C3_BufferFilledOnce ==
    LET size == width * height * 3
    IN  /\ DOMAIN image = 0..(size - 1)
        /\ \A i \in 1..Len(writeLog) : writeLog[i] \in 0..(size - 1)
        /\ \A i, j \in 1..Len(writeLog) : i # j => writeLog[i] # writeLog[j]
        /\ pc \in {"save", "saved", "done"} =>
              /\ Len(writeLog) = size
              /\ \A px \in 0..(width - 1), py \in 0..(height - 1) :
                    LET rgb == getColor(PixelIterations(px, py, width, height,
                                                        maxIterations),
                                        maxIterations, castMode)
                    IN  \A k \in 0..2 :
                           /\ (py * width + px) * 3 + k \in Range(writeLog)
                           /\ image[(py * width + px) * 3 + k] = rgb[k + 1]

\* The loop over a 3 x 2 image has finished.
C3_Witness ==
    pc = "save" /\ width = 3 /\ height = 2 /\ Len(writeLog) = 18

\* C4: main has returned exactly when it is done; it returns 0 exactly when
\* the encoder succeeded and 1 exactly when it failed, and on failure the
\* error line is printed and the success line is not.
C4_ExitCodeFollowsEncoder ==
    /\ pc # "done" => exitCode = <<>>
    /\ pc = "done" =>
          LET result == encoderCalls[1].result
          IN  /\ exitCode \in {<<0>>, <<1>>}
              /\ exitCode = <<0>> <=> result # 0
              /\ exitCode = <<1>> <=> result = 0
              /\ exitCode # <<0>> =>
                    /\ err = <<ErrorLine>>
                    /\ \A i \in 1..Len(out) : out[i][1] # SavedLine[1]

\* A run that ended with status 1.
C4_Witness ==
    pc = "done" /\ exitCode = <<1>> /\ encoderCalls[1].result = 0

\* C5: the encoder is called at most once, after the whole grid is written,
\* with width, height, 3 channels, stride width*3 and the buffer, and the
\* buffer stays what the encoder was given.
C5_EncoderOnceOnFinalBuffer ==
    /\ Len(encoderCalls) <= 1
    /\ pc \in {"saved", "done"} <=> Len(encoderCalls) = 1
    /\ Len(encoderCalls) = 1 =>
          LET call == encoderCalls[1]
          IN  /\ call.w = width /\ call.h = height
              /\ call.comp = 3 /\ call.stride = width * 3
              /\ call.data = image
              /\ Range(writeLog) = 0..(width * height * 3 - 1)
              /\ call.data = ColumnOuterFill(
                                 [i \in 0..(width * height * 3 - 1) |-> 0],
                                 0, width, height, maxIterations, castMode)

\* A run that ended after one failed call of the encoder.
C5_Witness ==
    /\ pc = "done" /\ Len(encoderCalls) = 1 /\ encoderCalls[1].result = 0
    /\ width > 1 /\ height > 1

\* C6: getColor(maxIterations, maxIterations) is (0, 0, 0).
C6_BlackAtCap ==
    (pc = "colored" /\ g_iterations = g_max) => g_rgb = <<0, 0, 0>>

\* getColor has returned for iterations = maxIterations = 1000.
C6_Witness ==
    /\ pc = "colored" /\ g_max = ProgramMaxIterations /\ g_iterations = g_max
    /\ g_rgb = <<0, 0, 0>>

\* C7: whatever the order in which the pixels were computed, the finished
\* buffer is the one the program's column-outer loop produces.
C7_OrderIndependent ==
    (pc = "pixels" /\ todo = {}) =>
        image = ColumnOuterFill([i \in 0..(BufferSize(width, height) - 1) |-> 0],
                                0, width, height, maxIterations, castMode)

\* Every pixel of an image with several columns and rows has been computed.
C7_Witness == pc = "pixels" /\ todo = {} /\ width > 1 /\ height > 1

\* C8: mandelbrot(0, 0, m) = m and mandelbrot(2.0, 0.0, m) = 1.
C8_OriginAndTwo ==
    pc = "returned" =>
        /\ (m_real = <<0, 4>> /\ m_imag = <<0, 4>>) => m_iterations = m_max
        /\ (m_real = <<8, 4>> /\ m_imag = <<0, 4>>) => m_iterations = 1

\* mandelbrot(2.0, 0.0, m) has returned 1 under a cap above 1.
C8_Witness ==
    /\ pc = "returned" /\ m_real = <<8, 4>> /\ m_imag = <<0, 4>>
    /\ m_max > 1 /\ m_iterations = 1

\* C9 (as claimed): a finished run has printed exactly three lines on
\* std::cout, and one line on std::cerr exactly when the encoder failed.
C9_ThreeLines ==
    pc = "done" =>
        /\ Len(out) = 3
        /\ Len(err) = (IF encoderCalls[1].result = 0 THEN 1 ELSE 0)

\* C9 (amended): a finished run has printed the start, completion and size
\* lines on std::cout; when the encoder succeeded a fourth line, the success
\* line, follows on std::cout and std::cerr is empty; when it failed
\* std::cout has those three lines only and std::cerr the one error line.
C9_ThreeLinesThenOutcome ==
    pc = "done" =>
        /\ Len(out) >= 3
        /\ SubSeq(out, 1, 3) =
              <<StartLine, CompleteLine, SizeLine(width * height * 3)>>
        /\ IF encoderCalls[1].result = 0
           THEN Len(out) = 3 /\ err = <<ErrorLine>>
           ELSE Len(out) = 4 /\ out[4] = SavedLine /\ err = <<>>

\* A run that ended after the encoder succeeded.
C9_Witness ==
    pc = "done" /\ encoderCalls[1].result = 1 /\ Len(out) = 4

\* C10: every count main got from mandelbrot and passed to getColor is in
\* [1, maxIterations], and below the cap it gives 0 < t < 1.
C10_AtLeastOneIteration ==
    Len(writeLog) > 0 =>
        /\ iterations \in 1..maxIterations
        /\ iterations # maxIterations =>
              (0 < iterations /\ iterations < maxIterations)

\* A pixel that escaped on the first test after one round has been coloured.
C10_Witness ==
    pc = "inner" /\ Len(writeLog) > 0 /\ iterations = 1 /\ maxIterations > 1

====
